---- MODULE Spec2Model ----
(***************************************************************************)
(* Model of scripts/filecounter/filecounter.py (terraref/pipeline): the    *)
(* update thread (run_update / update_file_counts / perform_count), the    *)
(* per-sensor CSV files it rewrites, and the Flask handlers that read them.*)
(*                                                                         *)
(* Dates are day offsets from MINIMUM_DATE_STRING (0 is 2018-09-01).       *)
(* A percentage is the whole number q that float(a/b) yields under the     *)
(* Python 2 integer division the script runs with (q stands for q.0).      *)
(***************************************************************************)
EXTENDS Integers, Sequences, FiniteSets, TLC

\* ------------------------------------------------------------------ bounds
\* "now" ranges over day offsets 0..MaxDay.
MaxDay == 1
\* Number of iterations of run_update's while-loop that are explored.
MaxPasses == 2
\* Number of times the files / database rows of one date change while running.
MaxChanges == 1
\* Days the clock runs on past a start date in the date-range specification.
MaxSpan == 3

\* ------------------------------------------------------------ configuration
\* Default of the <days> route parameter of showcsv.
DefaultDays == 14

RGB_REGEX == "^.*\\d+_rgb_.*thumb.tif"
IR_REGEX == "^.*\\d+_ir_.*thumb.tif"
RGB_QUERY == "Full Field -- RGB GeoTIFFs"
IR_QUERY == "Full Field -- Thermal IR GeoTIFFs"

NoParent == "-"

StageDef(name, type, path, regex, query, parent) ==
    [name |-> name, type |-> type, path |-> path, regex |-> regex,
     query |-> query, parent |-> parent]

\* count_defs: sensor -> ordered stage definitions (OrderedDict order).
count_defs ==
    [sensor \in {"stereoTop", "flirIrCamera"} |->
        IF sensor = "stereoTop"
        THEN << StageDef("stereoTop", "timestamp", "raw_data/stereoTop", "", "", NoParent),
                StageDef("bin2tif", "timestamp", "Level_1/rgb_geotiff", "", "", "stereoTop"),
                StageDef("rulechecker", "psql", "", "", RGB_QUERY, "bin2tif"),
                StageDef("fullfield", "regex", "Level_1/fullfield", RGB_REGEX, "", NoParent),
                StageDef("canopycover", "regex", "Level_1/fullfield", "", "", "fullfield") >>
        ELSE << StageDef("flirIrCamera", "timestamp", "raw_data/flirIrCamera", "", "", NoParent),
                StageDef("flir2tif", "timestamp", "Level_1/ir_geotiff", "", "", "flirIrCamera"),
                StageDef("rulechecker", "psql", "", "", IR_QUERY, "flir2tif"),
                StageDef("fullfield", "regex", "Level_1/fullfield", IR_REGEX, "", NoParent),
                StageDef("meantemp", "regex", "Level_1/fullfield", "", "", "fullfield") >>]

get_sensor_names == DOMAIN count_defs

HasParent(target_def) == target_def.parent # NoParent

\* count_defs edited so that a stage precedes its parent: bin2tif is listed
\* before stereoTop.
ChildFirstDefs ==
    [count_defs EXCEPT !["stereoTop"] =
        << count_defs["stereoTop"][2], count_defs["stereoTop"][1],
           count_defs["stereoTop"][3], count_defs["stereoTop"][4],
           count_defs["stereoTop"][5] >>]

\* count_defs edited so that a parent names no stage of the pipeline.
BadParentDefs ==
    [count_defs EXCEPT !["stereoTop"][2].parent = "stereoTop_raw"]

\* target_def["parent"] is a key of targets, for every stage of every sensor.
ValidParents(defs) ==
    \A sensor \in DOMAIN defs :
        \A i \in 1..Len(defs[sensor]) :
            HasParent(defs[sensor][i]) =>
                \E j \in 1..Len(defs[sensor]) :
                    defs[sensor][j].name = defs[sensor][i].parent

\* Index of the stage called name in targets (targets[name] of the OrderedDict).
StageIndex(targets, name) == CHOOSE i \in 1..Len(targets) : targets[i].name = name

PctCol(name) == <<name, "%">>
CountCol(name) == <<name, "">>
DateCol == <<"date", "">>

\* Column list built for a new DataFrame: date, then each stage and, for a
\* stage with a parent, its percentage column.
RECURSIVE ColsFrom(_, _)
ColsFrom(targets, i) ==
    IF i > Len(targets) THEN <<>>
    ELSE (IF HasParent(targets[i])
          THEN <<CountCol(targets[i].name), PctCol(targets[i].name)>>
          ELSE <<CountCol(targets[i].name)>>) \o ColsFrom(targets, i + 1)

Columns(targets) == <<DateCol>> \o ColsFrom(targets, 1)

\* ------------------------------------------------------------ environment
\* File names found in the timestamp directories of Level_1/fullfield.
RgbThumb == "fullfield_L1_ua-mac_2018-09-01_rgb_stereovis_thumb.tif"
IrThumb == "fullfield_L1_ua-mac_2018-09-01_ir_thermal_thumb.tif"
OtherFile == "fullfield_L1_ua-mac_2018-09-01_rgb.tif"

\* re.match(regex, file): the empty pattern matches every name.
ReMatch(regex, file) ==
    \/ regex = ""
    \/ regex = RGB_REGEX /\ file = RgbThumb
    \/ regex = IR_REGEX /\ file = IrThumb

Absent == [exists |-> FALSE, entries |-> <<>>]
\* A date directory holding n timestamp directories, each with the given files.
DateDir(n, files) == [exists |-> TRUE, entries |-> [i \in 1..n |-> files]]

\* What one date looks like on disk and in the rulechecker database.
World(rawS, l1S, rawF, l1F, ff, dbRgb, dbIr) ==
    [dirs |-> [p \in {"raw_data/stereoTop", "Level_1/rgb_geotiff",
                      "raw_data/flirIrCamera", "Level_1/ir_geotiff",
                      "Level_1/fullfield"} |->
                 CASE p = "raw_data/stereoTop" -> rawS
                   [] p = "Level_1/rgb_geotiff" -> l1S
                   [] p = "raw_data/flirIrCamera" -> rawF
                   [] p = "Level_1/ir_geotiff" -> l1F
                   [] OTHER -> ff],
     db |-> [q \in {RGB_QUERY, IR_QUERY} |-> IF q = RGB_QUERY THEN dbRgb ELSE dbIr]]

WorldEmpty == World(Absent, Absent, Absent, Absent, Absent, 0, 0)
WorldA == World(DateDir(10, <<>>), DateDir(4, <<>>), DateDir(4, <<>>), DateDir(4, <<>>),
                DateDir(1, <<RgbThumb, IrThumb, OtherFile>>), 10, 2)
WorldB == World(DateDir(0, <<>>), DateDir(4, <<>>), DateDir(10, <<>>), DateDir(2, <<>>),
                DateDir(2, <<OtherFile>>), 4, 10)
\* The state keeps the name of the data a date has.
WorldSeq == <<"empty", "A", "B">>
Worlds == {"empty", "A", "B"}
WorldData(w) ==
    CASE w = "A" -> WorldA
      [] w = "B" -> WorldB
      [] OTHER -> WorldEmpty
Pos3(w) == CHOOSE i \in 1..3 : WorldSeq[i] = w
\* The data of a date moves on: nothing yet, then WorldA, then WorldB, then
\* cleaned away again.
NextWorld(w) == WorldSeq[(Pos3(w) % 3) + 1]

\* -------------------------------------------------------------- counting
RECURSIVE CountMatches(_, _, _)
CountMatches(regex, files, i) ==
    IF i > Len(files) THEN 0
    ELSE (IF ReMatch(regex, files[i]) THEN 1 ELSE 0) + CountMatches(regex, files, i + 1)

RECURSIVE CountRegex(_, _, _)
CountRegex(regex, entries, i) ==
    IF i > Len(entries) THEN 0
    ELSE CountMatches(regex, entries[i], 1) + CountRegex(regex, entries, i + 1)

\* Variant: a date directory that does not exist is reported as -1, not 0.
perform_count_missing(target_def, w) ==
    CASE target_def.type = "timestamp" ->
            IF w.dirs[target_def.path].exists
            THEN Len(w.dirs[target_def.path].entries) ELSE -1
      [] target_def.type = "regex" ->
            IF w.dirs[target_def.path].exists
            THEN CountRegex(target_def.regex, w.dirs[target_def.path].entries, 1) ELSE -1
      [] target_def.type = "psql" -> w.db[target_def.query]
      [] OTHER -> 0

\* perform_count when the query (if any) does not raise.
perform_count(target_def, w) ==
    CASE target_def.type = "timestamp" ->
            IF w.dirs[target_def.path].exists
            THEN Len(w.dirs[target_def.path].entries) ELSE 0
      [] target_def.type = "regex" ->
            IF w.dirs[target_def.path].exists
            THEN CountRegex(target_def.regex, w.dirs[target_def.path].entries, 1) ELSE 0
      [] target_def.type = "psql" -> w.db[target_def.query]
      [] OTHER -> 0

\* ----------------------------------------------------------- aggregation
\* Variant: the ratio scaled to a percentage of 100.
Percentage_scaled(count, parentCount) ==
    IF parentCount > 0 THEN (100 * count) \div parentCount ELSE 0

\* float(counts[child] / counts[parent]) guarded by parent > 0: both operands
\* are ints, so "/" is Python 2 floor division and the float is a whole number.
Percentage(count, parentCount) ==
    IF parentCount > 0 THEN count \div parentCount ELSE 0

Raises(target_def, queryFails) == target_def.type = "psql" /\ queryFails

EmptyAcc ==
    [raised |-> FALSE, stage |-> NoParent, counts |-> <<>>, percentages |-> <<>>,
     calls |-> <<>>]

Put(f, k, v) == (k :> v) @@ f
Bump(calls, k) == Put(calls, k, IF k \in DOMAIN calls THEN calls[k] + 1 ELSE 1)

\* One iteration of "for target_count in targets" for one date: the stage's
\* own count, then the parent's count on demand and the percentage.  acc keeps
\* the counts and percentages dictionaries and the number of perform_count
\* calls made per stage.  An exception (a failing query, or targets[parent]
\* for a parent that is no stage) ends the loop.
StageStep(targets, i, w, queryFails, acc) ==
    LET t == targets[i]
        p == targets[StageIndex(targets, t.parent)]
        c1 == Put(acc.counts, t.name, perform_count(t, w))
        k1 == Bump(acc.calls, t.name)
        needParent == HasParent(t) /\ t.parent \notin DOMAIN c1
        known == \E j \in 1..Len(targets) : targets[j].name = t.parent
        c2 == IF needParent THEN Put(c1, t.parent, perform_count(p, w)) ELSE c1
        k2 == IF needParent THEN Bump(k1, t.parent) ELSE k1
    IN  IF acc.raised THEN acc
        ELSE IF Raises(t, queryFails)
        THEN [acc EXCEPT !.raised = TRUE, !.stage = t.name]
        ELSE IF ~HasParent(t)
        THEN [acc EXCEPT !.counts = c1, !.calls = k1]
        ELSE IF needParent /\ ~known
        THEN [acc EXCEPT !.raised = TRUE, !.stage = "KeyError", !.counts = c1, !.calls = k1]
        ELSE IF needParent /\ Raises(p, queryFails)
        THEN [acc EXCEPT !.raised = TRUE, !.stage = p.name, !.counts = c1, !.calls = k1]
        ELSE [acc EXCEPT !.counts = c2, !.calls = k2,
                         !.percentages =
                             Put(acc.percentages, t.name,
                                 Percentage(c2[t.name], c2[t.parent]))]

\* The loop over the stages.  Each iteration's result is bound as a value
\* (a2) before the next iteration uses it.
RECURSIVE CountStages(_, _, _, _, _)
CountStages(targets, i, w, queryFails, acc) ==
    IF i > Len(targets) THEN acc
    ELSE CHOOSE r \in {CountStages(targets, i + 1, w, queryFails, a2) :
                          a2 \in {StageStep(targets, i, w, queryFails, acc)}} : TRUE

\* counts / percentages of one date (lines 239-252).
Aggregate(targets, w, queryFails) == CountStages(targets, 1, w, queryFails, EmptyAcc)

\* ------------------------------------------------------------ data frames
Range(seq) == {seq[i] : i \in 1..Len(seq)}
Pos(seq, x) == CHOOSE i \in 1..Len(seq) : seq[i] = x

\* pd.DataFrame(columns=cols)
NewFrame(targets) == [columns |-> Columns(targets), rows |-> <<>>]

\* Index labels are tagged by type: a RangeIndex holds ints only.
IntLabel(i) == <<"int", i>>
StrLabel(s) == <<"str", s>>
IndexLabels(df) == {IntLabel(i - 1) : i \in 1..Len(df.rows)}

\* The CSV text: a header line and one line of cells per row, in column order.
NoFile == [exists |-> FALSE, header |-> <<>>, lines |-> <<>>]
EmptyFile == [exists |-> TRUE, header |-> <<>>, lines |-> <<>>]

\* Variant: a table of more than three rows is started afresh from its last
\* row when it is written.
to_csv_rotating(df) ==
    [exists |-> TRUE, header |-> df.columns,
     lines |-> [i \in 1..(IF Len(df.rows) > 3 THEN 1 ELSE Len(df.rows)) |->
                   [j \in 1..Len(df.columns) |->
                       df.rows[IF Len(df.rows) > 3 THEN Len(df.rows) ELSE i][df.columns[j]]]]]

\* df.to_csv(output_file, index=False), as the finished file.
to_csv(df) ==
    [exists |-> TRUE, header |-> df.columns,
     lines |-> [i \in 1..Len(df.rows) |->
                   [j \in 1..Len(df.columns) |-> df.rows[i][df.columns[j]]]]]

\* pd.read_csv raises on a missing file and on a file with no header line.
Readable(file) == file.exists /\ Len(file.header) > 0

\* pd.read_csv(file): rows keyed by the header's column names, RangeIndex.
read_csv(file) ==
    [columns |-> file.header,
     rows |-> [i \in 1..Len(file.lines) |->
                  [c \in Range(file.header) |-> file.lines[i][Pos(file.header, c)]]]]

\* Variant: the test looks for the date in the 'date' column only.
HasRowFor_column(df, current_date) ==
    \E i \in 1..Len(df.rows) : df.rows[i][DateCol] = current_date

\* 'date' in df.index and (df['date'] == current_date).any()
HasRowFor(df, current_date) ==
    /\ StrLabel("date") \in IndexLabels(df)
    /\ \E i \in 1..Len(df.rows) : df.rows[i][DateCol] = current_date

\* The Series built in the "create a new row" branch, by label.
NewEntry(targets, current_date, acc) ==
    [c \in Range(Columns(targets)) |->
        IF c = DateCol THEN current_date
        ELSE IF c[2] = "%" THEN acc.percentages[c[1]] ELSE acc.counts[c[1]]]

\* Variant: a date that already has a row is left as it is.
AppendRow_skip(df, series) ==
    IF \E i \in 1..Len(df.rows) : df.rows[i][DateCol] = series[DateCol]
    THEN df
    ELSE [df EXCEPT !.rows = Append(df.rows, [c \in Range(df.columns) |-> series[c]])]

\* df.append(series, ignore_index=True): the new row is aligned to df's columns.
AppendRow(df, series) ==
    [df EXCEPT !.rows = Append(df.rows, [c \in Range(df.columns) |-> series[c]])]

\* The "just update" branch: percentages[target_count+'%'] is looked up with
\* a key the dictionary never holds, so the branch raises KeyError as soon as
\* it reaches a stage with a parent.
UpdateRaises(targets) == \E i \in 1..Len(targets) : HasParent(targets[i])

UpdateRow(df, targets, current_date, acc) ==
    [df EXCEPT !.rows =
        [i \in 1..Len(df.rows) |->
            IF df.rows[i][DateCol] = current_date
            THEN [c \in DOMAIN df.rows[i] |->
                     IF c # DateCol /\ c[2] = "" /\ c[1] \in DOMAIN acc.counts
                     THEN acc.counts[c[1]] ELSE df.rows[i][c]]
            ELSE df.rows[i]]]

\* df.tail(days)
TailRows(rows, days) ==
    IF days >= Len(rows) THEN rows ELSE SubSeq(rows, Len(rows) - days + 1, Len(rows))

\* generate_dates_in_range(MINIMUM_DATE_STRING) when today is day offset today.
generate_dates_in_range(today) == [i \in 1..(today + 1) |-> i - 1]

\* ------------------------------------------------- calendar and datetime
\* A date string 'YYYY-MM-DD' is the triple <<year, month, day>>; a datetime
\* is a number of hours, 24 * (proleptic Gregorian ordinal) + hour of day.
Years == 2018..2101

IsLeap(y) == (y % 4 = 0) /\ ((y % 100 # 0) \/ (y % 400 = 0))

DaysInMonth(y, m) ==
    IF m = 2 THEN (IF IsLeap(y) THEN 29 ELSE 28)
    ELSE IF m \in {4, 6, 9, 11} THEN 30 ELSE 31

DaysBeforeYear(y) ==
    (y - 1) * 365 + ((y - 1) \div 4) - ((y - 1) \div 100) + ((y - 1) \div 400)

RECURSIVE DaysBeforeMonth(_, _)
DaysBeforeMonth(y, m) ==
    IF m = 1 THEN 0 ELSE DaysBeforeMonth(y, m - 1) + DaysInMonth(y, m - 1)

ToOrdinal(date) == DaysBeforeYear(date[1]) + DaysBeforeMonth(date[1], date[2]) + date[3]

FromOrdinal(n) ==
    LET y == CHOOSE yy \in Years : DaysBeforeYear(yy) < n /\ n <= DaysBeforeYear(yy + 1)
        m == CHOOSE mm \in 1..12 :
                 /\ DaysBeforeMonth(y, mm) < n - DaysBeforeYear(y)
                 /\ n - DaysBeforeYear(y) <= DaysBeforeMonth(y, mm) + DaysInMonth(y, mm)
    IN  <<y, m, n - DaysBeforeYear(y) - DaysBeforeMonth(y, m)>>

\* datetime.datetime.strptime(s, '%Y-%m-%d'): midnight of that date.
strptime(date_string) == 24 * ToOrdinal(date_string)

\* d.strftime('%Y-%m-%d')
strftime(datetime) == FromOrdinal(datetime \div 24)

\* (a - b).days: a timedelta is normalised, its days are the floor.
TimedeltaDays(a, b) == (a - b) \div 24

\* Variant: range(0, days_between), which stops a day early.
DayOffsets_exclusive(days_between) == [i \in 1..days_between |-> i - 1]

\* range(0, days_between+1)
DayOffsets(days_between) == [i \in 1..(days_between + 1) |-> i - 1]

\* generate_dates_in_range(start_date_string) when datetime.now() is todays_date.
GenerateDates(start_date_string, todays_date) ==
    LET start_date == strptime(start_date_string)
        days_between == TimedeltaDays(todays_date, start_date)
        offsets == DayOffsets(days_between)
    IN  [k \in 1..Len(offsets) |-> strftime(start_date + 24 * offsets[k])]

\* The day after a date, by the calendar's rules.
NextDay(date) ==
    IF date[3] < DaysInMonth(date[1], date[2]) THEN <<date[1], date[2], date[3] + 1>>
    ELSE IF date[2] < 12 THEN <<date[1], date[2] + 1, 1>>
    ELSE <<date[1] + 1, 1, 1>>

\* The day before a date.
PrevDay(date) ==
    IF date[3] > 1 THEN <<date[1], date[2], date[3] - 1>>
    ELSE IF date[2] > 1 THEN <<date[1], date[2] - 1, DaysInMonth(date[1], date[2] - 1)>>
    ELSE <<date[1] - 1, 12, 31>>

MINIMUM_DATE_STRING == <<2018, 9, 1>>

\* Start dates before the end of a month, of a year, of February in a leap
\* year, a common year and a century year.
StartDates ==
    {MINIMUM_DATE_STRING, <<2018, 9, 29>>, <<2018, 12, 30>>, <<2019, 2, 27>>,
     <<2020, 2, 27>>, <<2100, 2, 27>>}

\* ------------------------------------------------------------------ state
VARIABLES
    now,             \* today's day offset from MINIMUM_DATE_STRING
    world,           \* date -> name of what the file system and database hold for it
    changes,         \* number of changes of world so far
    loaded_defs,          \* the count_defs the process runs with
    schedPc,         \* position of the update thread
    passNo,          \* iterations of run_update's loop started so far
    active,          \* passes that have started and not yet ended
    dates_to_check,  \* run_update's local
    sensorIdx,       \* position of "for sensor in count_defs"
    dateIdx,         \* position of "for current_date in dates_to_check"
    df,              \* update_file_counts' data frame
    computed,        \* date -> the row computed for it in this update_file_counts call
    files,           \* sensor -> the CSV file on disk
    committed,       \* sensor -> the file as of the last finished to_csv
    out,             \* what the update thread's last step produced
    resp,            \* the response of the request handled by the last step
    gen              \* a call of generate_dates_in_range on its own, with its clock

vars == <<now, world, changes, loaded_defs, schedPc, passNo, active, dates_to_check,
          sensorIdx, dateIdx, df, computed, files, committed, out, resp, gen>>

Sensors == get_sensor_names

\* "for sensor in count_defs": count_defs is a plain dict, iterated in hash-slot
\* order; CPython 2.7 (no hash randomisation) puts flirIrCamera first.
sensorOrder == <<"flirIrCamera", "stereoTop">>
Dates == 0..MaxDay

NoFrame == [columns |-> <<>>, rows |-> <<>>]
NoOut == [kind |-> "none"]
NoResp == [op |-> "none"]
NoGen == [called |-> FALSE]

\* Values of <int:days> that requests carry.
RequestDays == {0, 2}

\* The state in which main() starts the update thread and the Flask app, with
\* count definitions defs and the CSV files disk found on disk.
Start(defs, disk) ==
    /\ now \in Dates
    /\ \E k \in 0..2 : world = [d \in Dates |-> WorldSeq[((d + k) % 3) + 1]]
    /\ changes = 0
    /\ loaded_defs = defs
    /\ schedPc = "start"
    /\ passNo = 0
    /\ active = {}
    /\ dates_to_check = <<>>
    /\ sensorIdx = 1
    /\ dateIdx = 1
    /\ df = NoFrame
    /\ computed = <<>>
    /\ files = disk
    /\ committed = [s \in Sensors |-> NoFile]
    /\ out = NoOut
    /\ resp = NoResp

\* First start: the shipped count_defs, no CSV written yet.
Init == Start(count_defs, [s \in Sensors |-> NoFile]) /\ gen = NoGen

\* Start with an edited count_defs.
ConfigInit ==
    /\ \E defs \in {ChildFirstDefs, BadParentDefs} : Start(defs, [s \in Sensors |-> NoFile])
    /\ gen = NoGen

\* Start after an earlier run: a CSV may be there, left unreadable by a save
\* that did not finish.
RestartInit ==
    /\ \E disk \in [Sensors -> {NoFile, EmptyFile}] : Start(count_defs, disk)
    /\ gen = NoGen

\* generate_dates_in_range taken alone: a start date, and a clock that stands
\* at noon of the day before it.
DateInit ==
    /\ Start(count_defs, [s \in Sensors |-> NoFile])
    /\ \E start \in StartDates :
          gen = [called |-> FALSE, start |-> start, ticks |-> 0,
                 clock |-> [date |-> PrevDay(start), hour |-> 12]]

\* ------------------------------------------------------------ environment
\* The clock is read only at the top of run_update's loop and the data of a
\* date only when that date is scanned, so midnight or a change of the data
\* during a pass is taken at the boundary of the pass.
BetweenPasses == schedPc \in {"start", "sleep"}

NewDay ==
    /\ BetweenPasses
    /\ now < MaxDay
    /\ now' = now + 1
    /\ resp' = NoResp
    /\ UNCHANGED <<world, changes, loaded_defs, schedPc, passNo, active, dates_to_check,
                   sensorIdx, dateIdx, df, computed, files, committed, out, gen>>

\* Files are added or removed and database rows change.
FilesChange ==
    /\ BetweenPasses
    /\ changes < MaxChanges
    /\ world' = [d \in Dates |-> NextWorld(world[d])]
    /\ changes' = changes + 1
    /\ resp' = NoResp
    /\ UNCHANGED <<now, loaded_defs, schedPc, passNo, active, dates_to_check,
                   sensorIdx, dateIdx, df, computed, files, committed, out, gen>>

\* ----------------------------------------------------------- update thread
envVars == <<now, world, changes, loaded_defs, gen>>

\* Variant: a pass is started on every timer tick, whatever the thread is doing.
CanStartPass_timer == schedPc # "dead"

\* The loop body of run_update is entered when the thread starts and each
\* time time.sleep(3600) returns.
CanStartPass == schedPc \in {"start", "sleep"}

\* while True: dates_to_check = generate_dates_in_range(MINIMUM_DATE_STRING)
StartPass ==
    /\ CanStartPass
    /\ passNo < MaxPasses
    /\ passNo' = passNo + 1
    /\ active' = active \cup {passNo + 1}
    /\ dates_to_check' = generate_dates_in_range(now)
    /\ sensorIdx' = 1
    /\ schedPc' = "load"
    /\ out' = NoOut
    /\ resp' = NoResp
    /\ UNCHANGED <<envVars, dateIdx, df, computed, files, committed>>

\* update_file_counts, lines 219-235: load the CSV or create the frame.
\* read_csv raising ends the thread (nothing catches it).
Load ==
    /\ schedPc = "load"
    /\ LET sensor == sensorOrder[sensorIdx]
           file == files[sensor]
       IN  IF file.exists /\ ~Readable(file)
           THEN /\ schedPc' = "dead"
                /\ active' = {}
                /\ out' = [kind |-> "raised", sensor |-> sensor, date |-> -1,
                           stage |-> "read_csv"]
                /\ UNCHANGED <<df, dateIdx, computed>>
           ELSE /\ df' = IF file.exists THEN read_csv(file)
                         ELSE NewFrame(loaded_defs[sensor])
                /\ computed' = <<>>
                /\ dateIdx' = 1
                /\ schedPc' = "dates"
                /\ out' = NoOut
                /\ UNCHANGED active
    /\ resp' = NoResp
    /\ UNCHANGED <<envVars, passNo, dates_to_check, sensorIdx, files, committed>>

\* One iteration of "for current_date in dates_to_check" (lines 237-275).
\* An exception of perform_count or of the update branch propagates out of
\* update_file_counts and run_update and ends the thread.
ProcessDate ==
    /\ schedPc = "dates"
    /\ dateIdx <= Len(dates_to_check)
    /\ \E queryFails \in BOOLEAN :
          LET sensor == sensorOrder[sensorIdx]
              targets == loaded_defs[sensor]
              current_date == dates_to_check[dateIdx]
              acc == Aggregate(targets, WorldData(world[current_date]), queryFails)
              update == HasRowFor(df, current_date)
          IN  IF acc.raised \/ (update /\ UpdateRaises(targets))
              THEN /\ schedPc' = "dead"
                   /\ active' = {}
                   /\ out' = [kind |-> "raised", sensor |-> sensor, date |-> current_date,
                              stage |-> IF acc.raised THEN acc.stage ELSE "update"]
                   /\ UNCHANGED <<df, dateIdx, computed>>
              ELSE /\ df' = IF update THEN UpdateRow(df, targets, current_date, acc)
                            ELSE AppendRow(df, NewEntry(targets, current_date, acc))
                   /\ computed' = Put(computed, current_date,
                                      NewEntry(targets, current_date, acc))
                   /\ dateIdx' = dateIdx + 1
                   /\ out' = [kind |-> "scanned", sensor |-> sensor, date |-> current_date,
                              acc |-> acc]
                   /\ UNCHANGED <<schedPc, active>>
    /\ resp' = NoResp
    /\ UNCHANGED <<envVars, passNo, dates_to_check, sensorIdx, files, committed>>

\* Variant: the table is written as soon as one date has been processed.
LoopDone_firstDate == dateIdx > 1

\* "for current_date in dates_to_check" has run through.
LoopDone == dateIdx > Len(dates_to_check)

\* df.to_csv(output_file, index=False), first half: the file is opened for
\* writing in place, which truncates it.
SaveOpen ==
    /\ schedPc = "dates"
    /\ LoopDone
    /\ files' = [files EXCEPT ![sensorOrder[sensorIdx]] = EmptyFile]
    /\ schedPc' = "write"
    /\ out' = NoOut
    /\ resp' = NoResp
    /\ UNCHANGED <<envVars, passNo, active, dates_to_check, sensorIdx, dateIdx, df,
                   computed, committed>>

\* Second half: header and rows are written and the file is closed;
\* update_file_counts returns and the sensor loop moves on, or the pass ends
\* and the thread sleeps.
SaveClose ==
    /\ schedPc = "write"
    /\ LET sensor == sensorOrder[sensorIdx]
       IN  /\ files' = [files EXCEPT ![sensor] = to_csv(df)]
           /\ committed' = [committed EXCEPT ![sensor] = to_csv(df)]
           /\ out' = [kind |-> "saved", sensor |-> sensor, dates |-> dates_to_check]
    /\ IF sensorIdx < Len(sensorOrder)
       THEN /\ sensorIdx' = sensorIdx + 1
            /\ schedPc' = "load"
            /\ UNCHANGED active
       ELSE /\ schedPc' = "sleep"
            /\ active' = active \ {passNo}
            /\ UNCHANGED sensorIdx
    /\ resp' = NoResp
    /\ UNCHANGED <<envVars, passNo, dates_to_check, dateIdx, df, computed>>

\* What a to_csv that stops part-way leaves on disk: nothing (k < 0), or the
\* header and the first k lines.
PartialCsv(frame, k) ==
    IF k < 0 THEN EmptyFile
    ELSE [to_csv(frame) EXCEPT !.lines = SubSeq(to_csv(frame).lines, 1, k)]

\* to_csv raises while writing (IOError): the file keeps what was written so
\* far and the exception ends the thread.
SaveFail ==
    /\ schedPc = "write"
    /\ \E k \in -1..(Len(df.rows) - 1) :
          files' = [files EXCEPT ![sensorOrder[sensorIdx]] = PartialCsv(df, k)]
    /\ schedPc' = "dead"
    /\ active' = {}
    /\ out' = [kind |-> "raised", sensor |-> sensorOrder[sensorIdx], date |-> -1,
               stage |-> "to_csv"]
    /\ resp' = NoResp
    /\ UNCHANGED <<envVars, passNo, dates_to_check, sensorIdx, dateIdx, df, computed,
                   committed>>

\* ------------------------------------------------------------ Flask routes
schedVars == <<schedPc, passNo, active, dates_to_check, sensorIdx, dateIdx, df,
               computed, files, committed, out>>

\* /sensors
sensors ==
    /\ resp' = [op |-> "sensors", names |-> get_sensor_names]
    /\ UNCHANGED <<envVars, schedVars>>

\* Variant: the handler opens the CSV for appending, which creates a missing
\* file.
download_creating ==
    /\ \E sensor_name \in Sensors :
          /\ resp' = IF files[sensor_name].exists
                     THEN [op |-> "download", sensor |-> sensor_name, status |-> 200,
                           body |-> files[sensor_name]]
                     ELSE [op |-> "download", sensor |-> sensor_name, status |-> 500]
          /\ files' = IF files[sensor_name].exists THEN files
                      ELSE [files EXCEPT ![sensor_name] = EmptyFile]
    /\ UNCHANGED <<envVars, schedPc, passNo, active, dates_to_check, sensorIdx, dateIdx,
                   df, computed, committed, out>>

\* /download/<sensor_name>: send_file of the CSV as it is on disk.
download ==
    /\ \E sensor_name \in Sensors :
          resp' = IF files[sensor_name].exists
                  THEN [op |-> "download", sensor |-> sensor_name, status |-> 200,
                        body |-> files[sensor_name]]
                  ELSE [op |-> "download", sensor |-> sensor_name, status |-> 500]
    /\ UNCHANGED <<envVars, schedVars>>

\* The body of showcsv for a given days value.
ShowCsvResponse(sensor_name, days, file) ==
    IF ~Readable(file)
    THEN [op |-> "showcsv", sensor |-> sensor_name, days |-> days, status |-> 500]
    ELSE LET frame == read_csv(file)
         IN  [op |-> "showcsv", sensor |-> sensor_name, days |-> days, status |-> 200,
              columns |-> frame.columns,
              rows |-> IF days = 0 THEN frame.rows ELSE TailRows(frame.rows, days)]

\* /showcsv/<sensor_name>/<int:days>
showcsv ==
    /\ \E sensor_name \in Sensors, days \in RequestDays :
          resp' = ShowCsvResponse(sensor_name, days, files[sensor_name])
    /\ UNCHANGED <<envVars, schedVars>>

\* /showcsv/<sensor_name>, defaults={'days': 14}
showcsv_default ==
    /\ \E sensor_name \in Sensors :
          resp' = ShowCsvResponse(sensor_name, DefaultDays, files[sensor_name])
    /\ UNCHANGED <<envVars, schedVars>>

\* ---------------------------------------------------------- specification
SchedulerStep == StartPass \/ Load \/ ProcessDate \/ SaveOpen \/ SaveClose

Next ==
    \/ NewDay
    \/ FilesChange
    \/ StartPass
    \/ Load
    \/ ProcessDate
    \/ SaveOpen
    \/ SaveClose
    \/ SaveFail
    \/ sensors
    \/ download
    \/ showcsv
    \/ showcsv_default

Spec == Init /\ [][Next]_vars

\* The update thread is a running thread: it takes its next step whenever it
\* has one.
FairSpec == Spec /\ WF_vars(SchedulerStep)

\* ------------------------------------------ generate_dates_in_range alone
processVars == <<now, world, changes, loaded_defs, schedPc, passNo, active,
                 dates_to_check, sensorIdx, dateIdx, df, computed, files, committed,
                 out, resp>>

\* Twelve hours pass.
Tick ==
    /\ gen.ticks < 2 * MaxSpan + 2
    /\ gen' = [gen EXCEPT !.ticks = @ + 1,
                          !.clock = IF @.hour = 0 THEN [@ EXCEPT !.hour = 12]
                                    ELSE [date |-> NextDay(@.date), hour |-> 0]]
    /\ UNCHANGED processVars

\* datetime.datetime.now()
Now(clock) == 24 * ToOrdinal(clock.date) + clock.hour

Generate ==
    /\ gen' = [called |-> TRUE, start |-> gen.start, ticks |-> gen.ticks,
               clock |-> gen.clock, today |-> gen.clock.date,
               date_strings |-> GenerateDates(gen.start, Now(gen.clock))]
    /\ UNCHANGED processVars

DateNext == Tick \/ Generate

DateSpec == DateInit /\ [][DateNext]_vars

\* The same process started with an edited count_defs.
ConfigSpec == ConfigInit /\ [][Next]_vars

\* The same process started over CSV files of an earlier run.
RestartSpec == RestartInit /\ [][Next]_vars

\* ================================================================= claims
Scanning == schedPc \in {"load", "dates", "write"}

\* The dates of a saved table, in row order.
FileDates(file) == [i \in 1..Len(file.lines) |-> file.lines[i][Pos(file.header, DateCol)]]

\* The rows of a saved table as read back.
SavedRows(sensor) == read_csv(committed[sensor]).rows

StagesWithParent(sensor) ==
    {i \in 1..Len(count_defs[sensor]) : HasParent(count_defs[sensor][i])}

\* C1: after any number of completed calls of update_file_counts, no two rows
\* of a saved table have the same date.
C1_NoDuplicateDates ==
    \A s \in Sensors :
        \A i, j \in 1..Len(committed[s].lines) :
            i # j => FileDates(committed[s])[i] # FileDates(committed[s])[j]

\* C2: processing a date that already has a row overwrites that row with the
\* newly computed values and leaves the table length unchanged; processing a
\* date with no row appends exactly one row.
C2_UpsertByDate ==
    [][(schedPc = "dates" /\ dateIdx' = dateIdx + 1) =>
          LET d == dates_to_check[dateIdx]
              present == {i \in 1..Len(df.rows) : df.rows[i][DateCol] = d}
          IN  IF present # {}
              THEN /\ Len(df'.rows) = Len(df.rows)
                   /\ \A i \in present : df'.rows[i] = computed'[d]
              ELSE /\ Len(df'.rows) = Len(df.rows) + 1
                   /\ df'.rows[Len(df'.rows)] = computed'[d]]_vars

\* C3: for every computed row and every stage with a parent, the stored
\* percentage is the exact ratio count/parentCount when parentCount > 0
\* (percentage * parentCount = count) and 0 when parentCount = 0.
C3_ExactRatio ==
    \A s \in Sensors :
        \A i \in 1..Len(SavedRows(s)) :
            \A k \in StagesWithParent(s) :
                LET t == count_defs[s][k]
                    row == SavedRows(s)[i]
                    count == row[CountCol(t.name)]
                    parentCount == row[CountCol(t.parent)]
                    pct == row[PctCol(t.name)]
                IN  IF parentCount > 0 THEN pct * parentCount = count ELSE pct = 0

\* C4: if the psql count raises for one stage on one date, the persisted table
\* of that sensor is as it was saved before, and the pass goes on (the thread
\* is still scanning, or has finished the pass and sleeps).
C4_QueryFailureSkipsOneStage ==
    (out.kind = "raised" /\ out.stage = "rulechecker") =>
        /\ files[out.sensor] = committed[out.sensor]
        /\ (Scanning \/ schedPc = "sleep")

\* C5: a scan pass always ends with the scheduler idle (sleeping) again,
\* whether or not a count failed during the pass.
C5_ScanReturnsToIdle == Scanning ~> (schedPc = "sleep")

\* The complete snapshots of a sensor's table: the last one saved and, while
\* to_csv is writing, the one being saved.
CompleteSnapshots(sensor) ==
    {committed[sensor]} \cup
        (IF schedPc = "write" /\ sensorOrder[sensorIdx] = sensor THEN {to_csv(df)} ELSE {})

\* C6: a showcsv or download request on a table that has been saved before
\* sees a complete snapshot, the previously saved one or the new one.
C6_ReadsSeeCompleteSnapshot ==
    (resp.op \in {"showcsv", "download"} /\ committed[resp.sensor].exists) =>
        \E f \in CompleteSnapshots(resp.sensor) :
            IF resp.op = "download"
            THEN resp.status = 200 /\ resp.body = f
            ELSE resp = ShowCsvResponse(resp.sensor, resp.days, f)

\* C7: at most one scan pass is active at any time, and while the thread scans
\* it is the pass started last.
C7_OnePassAtATime ==
    /\ Cardinality(active) <= 1
    /\ Scanning => active = {passNo}

C7_Witness == passNo = 2 /\ active = {2} /\ schedPc = "write"

C9_RangeIsSaved ==
    out.kind = "saved" =>
        \A k \in 1..Len(out.dates) :
            /\ out.dates[k] \in DOMAIN computed
            /\ \E i \in 1..Len(read_csv(files[out.sensor]).rows) :
                   read_csv(files[out.sensor]).rows[i] = computed[out.dates[k]]

\* A second pass has saved after the data changed: the table holds the old row
\* of a date and the row computed for it in this call.
C9_Witness ==
    /\ out.kind = "saved"
    /\ passNo = 2
    /\ Len(out.dates) = 2
    /\ \E i \in 1..Len(read_csv(files[out.sensor]).rows) :
           LET row == read_csv(files[out.sensor]).rows[i]
           IN  row[DateCol] \in DOMAIN computed /\ row # computed[row[DateCol]]

\* C10: the table view returns the last n rows (n defaulting to 14) and these
\* are the rows with the n greatest dates: no row left out has a later date
\* than a row returned.
C10_TailIsMostRecent ==
    (resp.op = "showcsv" /\ resp.status = 200 /\ resp.days > 0) =>
        LET all == read_csv(files[resp.sensor]).rows
            left == Len(all) - Len(resp.rows)
        IN  /\ Len(resp.rows) = IF resp.days < Len(all) THEN resp.days ELSE Len(all)
            /\ \A i \in 1..Len(resp.rows) : resp.rows[i] = all[left + i]
            /\ \A i \in 1..Len(resp.rows) :
                   \A j \in 1..left : all[j][DateCol] <= resp.rows[i][DateCol]

\* C11: a count_defs in which a stage's parent names no stage of the same
\* sensor is fatal at startup: no scan pass is ever started and no request is
\* ever answered.
C11_BadParentFatalAtStartup ==
    ~ValidParents(loaded_defs) => (passNo = 0 /\ resp = NoResp)

\* C12: generate_dates_in_range(start) returns the consecutive calendar dates
\* from start to today inclusive, each the day after the one before it, with no
\* repeats (and none when today is before start); from 2018-09-01 with today
\* 2018-09-03 it returns exactly 2018-09-01, 2018-09-02, 2018-09-03.
C12_ConsecutiveDatesToToday ==
    gen.called =>
        LET r == gen.date_strings
        IN  /\ IF ToOrdinal(gen.today) >= ToOrdinal(gen.start)
               THEN Len(r) >= 1 /\ r[1] = gen.start /\ r[Len(r)] = gen.today
               ELSE r = <<>>
            /\ \A i \in 1..(Len(r) - 1) : r[i + 1] = NextDay(r[i])
            /\ \A i, j \in 1..Len(r) : i # j => r[i] # r[j]
            /\ (gen.start = <<2018, 9, 1>> /\ gen.today = <<2018, 9, 3>>) =>
                   r = << <<2018, 9, 1>>, <<2018, 9, 2>>, <<2018, 9, 3>> >>

C12_Witness ==
    /\ gen.called
    /\ gen.start = <<2018, 9, 1>>
    /\ gen.today = <<2018, 9, 3>>
    /\ Len(gen.date_strings) = 3

\* The stages of a sensor counted from the file system.
DirStages(sensor) ==
    {i \in 1..Len(count_defs[sensor]) :
        count_defs[sensor][i].type \in {"timestamp", "regex"}}

\* C13: for a date whose date directory does not exist under a stage's path,
\* perform_count returns 0 for a 'timestamp' and for a 'regex' stage, and
\* raises nothing: an exception met while a date is scanned never comes from
\* such a stage.
C13_MissingDirCountsZero ==
    /\ out.kind = "scanned" =>
           \A i \in DirStages(out.sensor) :
               LET t == count_defs[out.sensor][i]
               IN  ~WorldData(world[out.date]).dirs[t.path].exists =>
                       out.acc.counts[t.name] = 0
    /\ (out.kind = "raised" /\ out.date \in Dates) =>
           \A i \in DirStages(out.sensor) : count_defs[out.sensor][i].name # out.stage

\* A date has been scanned for which no stage's date directory exists.
C13_Witness ==
    /\ out.kind = "scanned"
    /\ \A i \in DirStages(out.sensor) :
           ~WorldData(world[out.date]).dirs[count_defs[out.sensor][i].path].exists
    /\ \E i \in DirStages(out.sensor) : count_defs[out.sensor][i].type = "timestamp"
    /\ \E i \in DirStages(out.sensor) : count_defs[out.sensor][i].type = "regex"

\* C14: handling a request (/sensors, /showcsv, /download) is read-only and
\* independent of the scan: the step that answers a request starts no pass,
\* leaves the update thread where it is and leaves every CSV file unchanged.
C14_RequestsAreReadOnly ==
    [][resp' # NoResp =>
          /\ files' = files
          /\ committed' = committed
          /\ passNo' = passNo
          /\ active' = active
          /\ schedPc' = schedPc
          /\ df' = df]_vars

\* A request is answered from a saved table while the next pass is scanning.
C14_Witness ==
    /\ resp.op \in {"showcsv", "download"}
    /\ resp.status = 200
    /\ schedPc = "dates"
    /\ passNo = 2

\* C15: when to_csv fails part-way, the table saved before is still on disk,
\* intact and loadable.
C15_FailedSaveKeepsSnapshot ==
    (out.kind = "raised" /\ out.stage = "to_csv" /\ committed[out.sensor].exists) =>
        /\ files[out.sensor] = committed[out.sensor]
        /\ Readable(files[out.sensor])

\* C16: when a sensor's existing CSV cannot be read, update_file_counts for that
\* sensor ends with the exception, the file is left as it was, and nothing else
\* is affected: the update thread goes on scanning (the next sensor) or has
\* finished the pass and sleeps.
C16_UnreadableTableAbortsOnePipeline ==
    (out.kind = "raised" /\ out.stage = "read_csv") =>
        /\ files[out.sensor].exists /\ ~Readable(files[out.sensor])
        /\ (Scanning \/ schedPc = "sleep")

\* C17: rows are never deleted: every date of a saved table is a date of every
\* table saved after it for the same sensor, and the number of rows of the
\* saved table never decreases from one save to the next.
C17_RowsNeverDeleted ==
    [][\A s \in Sensors :
          /\ Range(FileDates(committed[s])) \subseteq Range(FileDates(committed'[s]))
          /\ Len(committed[s].lines) <= Len(committed'[s].lines)]_vars

\* A second pass has saved a table of two dates over the table of the first.
C17_Witness ==
    /\ out.kind = "saved"
    /\ passNo = 2
    /\ Cardinality(Range(FileDates(committed[out.sensor]))) = 2
    /\ Len(committed[out.sensor].lines) > Len(out.dates)

\* C18: while one date is scanned, perform_count is called at most once for
\* each stage, in whatever order the stages are listed: a parent counted on
\* demand for a child is not counted again when the loop reaches it.
C18_EachStageCountedOnce ==
    out.kind = "scanned" =>
        \A stage \in DOMAIN out.acc.calls : out.acc.calls[stage] <= 1

\* C19: update_file_counts writes the sensor's CSV at most once per call and
\* only after every date of dates_to_check has been processed: a step changes
\* a file only if it is the file of the sensor being scanned and the date loop
\* is over, the write once begun is followed by the end of the call, and a
\* step in which a count raises writes nothing and leaves the file as it was
\* last saved.
C19_WriteOnceAfterAllDates ==
    [][/\ \A s \in Sensors :
              files'[s] # files[s] =>
                  /\ s = sensorOrder[sensorIdx]
                  /\ schedPc \in {"dates", "write"}
                  /\ dateIdx > Len(dates_to_check)
                  /\ \A d \in Range(dates_to_check) : d \in DOMAIN computed
       /\ (schedPc = "write" /\ schedPc' # schedPc) => schedPc' \in {"load", "sleep", "dead"}
       /\ (out'.kind = "raised" /\ out'.date \in Dates /\ out' # out) =>
              /\ files' = files
              /\ files'[out'.sensor] = committed'[out'.sensor]]_vars

\* A count raised on the second date of a pass, after the first date had been
\* processed, and the table saved by the pass before is on disk.
C19_Witness ==
    /\ out.kind = "raised"
    /\ out.date = 1
    /\ passNo = 2
    /\ committed[out.sensor].exists
    /\ files[out.sensor] = committed[out.sensor]

====
